---- MODULE Spec2Model ----
(***************************************************************************)
(* Model of the autoencoder wrapper (lightning_pod/core/module.py) and of  *)
(* the hydra training driver (examples/hydra/trainer.py).                  *)
(*                                                                         *)
(* Tensors are records [kind, shape, rows]: shape is the tuple of          *)
(* dimensions, rows has one integer per sample of the batch, standing for  *)
(* that sample's feature vector.  Every layer of the network acts sample   *)
(* by sample, so a layer is a map on rows together with a map on shapes.   *)
(* Python values carry a "kind" field (NoneType, Tensor, tuple, list,      *)
(* TensorDataset); an exception is the name of its class.                  *)
(***************************************************************************)
EXTENDS Integers, Sequences, FiniteSets, TLC

VARIABLES
    pc,            \* index into Program of the statement main() is at
    status,        \* "running" | "done" | "failed" ("module": wrapper only)
    failure,       \* [at, kind] of the exception that ended the run
    steps,         \* statements main() has finished (returned or raised), in order
    fast_dev_run,  \* cfg.trainer.fast_dev_run
    seedCalls,     \* number of seed_everything calls
    monitor,       \* metric name the EarlyStopping callback monitors
    model,         \* the wrapper instance (hyperparameters and weights)
    files,         \* artifacts written to disk
    predictions,   \* the local variable `predictions` of main()
    predInputs,    \* input tensors the prediction loop has fed, in order
    call,          \* the latest invocation of a wrapper step method
    fitLogged,     \* metric names recorded through self.log during fit
    fitSteps       \* training batches the fit loop has run

vars == <<pc, status, failure, steps, fast_dev_run, seedCalls, monitor, model,
          files, predictions, predInputs, call, fitLogged, fitSteps>>

(***************************************************************************)
(* Bounds                                                                  *)
(***************************************************************************)
MaxBatch == 2        \* samples per batch: 1..MaxBatch
MaxPixel == 1        \* a sample's abstract content: 0..MaxPixel
MaxLabel == 1        \* class labels: 0..MaxLabel
MaxFitSteps == 2     \* training batches per fit
MaxValBatches == 2   \* batches of the validation dataloader

(***************************************************************************)
(* Python values                                                           *)
(***************************************************************************)
None == [kind |-> "NoneType"]

Tensor(shape, rows) == [kind |-> "Tensor", shape |-> shape, rows |-> rows]

Scalar(v) == Tensor(<<>>, <<v>>)

Tuple(items) == [kind |-> "tuple", items |-> items]

List(items) == [kind |-> "list", items |-> items]

Error(class) == [kind |-> "Error", class |-> class]

IsTensor(t) == t.kind = "Tensor"

RECURSIVE Prod(_)
Prod(s) == IF s = <<>> THEN 1 ELSE Head(s) * Prod(Tail(s))

RECURSIVE SumSeq(_)
SumSeq(s) == IF s = <<>> THEN 0 ELSE Head(s) + SumSeq(Tail(s))

\* x.view(x.size(0), -1)
view(x) == Tensor(<<x.shape[1], Prod(Tail(x.shape))>>, x.rows)

(***************************************************************************)
(* Layers                                                                  *)
(***************************************************************************)
ImgSide == 28
InFeatures == ImgSide * ImgSide
Hidden == 64
Latent == 3
PReLUDen == 4        \* PReLU's initial slope is 1/4

\* nn.Linear(in_features, out_features, bias=True)
Linear(in_features, out_features, w, b, t) ==
    IF ~IsTensor(t) THEN t
    ELSE IF t.shape = <<>> \/ t.shape[Len(t.shape)] # in_features
         THEN Error("RuntimeError")
         ELSE Tensor([t.shape EXCEPT ![Len(t.shape)] = out_features],
                     [i \in 1..Len(t.rows) |-> w * t.rows[i] + b])

\* nn.PReLU(inplace=False)
PReLU(t) ==
    IF ~IsTensor(t) THEN t
    ELSE Tensor(t.shape, [i \in 1..Len(t.rows) |->
                    IF t.rows[i] >= 0 THEN t.rows[i]
                                      ELSE -((-t.rows[i]) \div PReLUDen)])

\* nn.Dropout(p): p in percent; mask is the set of samples zeroed in this pass
Dropout(p, training, mask, t) ==
    IF ~IsTensor(t) THEN t
    ELSE IF ~training \/ p = 0 THEN t
    ELSE Tensor(t.shape, [i \in 1..Len(t.rows) |->
                    IF p = 100 \/ i \in mask THEN 0
                    ELSE (t.rows[i] * 100) \div (100 - p)])

\* Encoder.forward: Sequential(Linear, PReLU, Dropout, Linear)
Encoder(self, mask, x) ==
    Linear(Hidden, Latent, self.params.w2, self.params.b2,
        Dropout(self.dropout, self.training, mask,
            PReLU(Linear(InFeatures, Hidden, self.params.w1, self.params.b1, x))))

\* a decoder whose first layer expects one latent feature too many
DecoderWide(self, mask, z) ==
    Linear(Hidden, InFeatures, self.params.w4, self.params.b4,
        Dropout(self.dropout, self.training, mask,
            PReLU(Linear(Latent + 1, Hidden, self.params.w3, self.params.b3, z))))

\* Decoder.forward: Sequential(Linear, PReLU, Dropout, Linear)
Decoder(self, mask, z) ==
    Linear(Hidden, InFeatures, self.params.w4, self.params.b4,
        Dropout(self.dropout, self.training, mask,
            PReLU(Linear(Latent, Hidden, self.params.w3, self.params.b3, z))))

(***************************************************************************)
(* torch.nn.functional and torchmetrics.functional                         *)
(***************************************************************************)
LnFeatures == 7      \* log(784), rounded

\* F.log_softmax(t, dim=1): every row minus its log-sum-exp
log_softmax(t) ==
    IF ~IsTensor(t) THEN t
    ELSE Tensor(t.shape, [i \in 1..Len(t.rows) |->
                    t.rows[i] - (t.rows[i] + LnFeatures)])

\* F.mse_loss(input, target): mean of the squared differences, a scalar
mse_loss(input, target) ==
    IF ~IsTensor(input) THEN input
    ELSE IF input.shape # target.shape THEN Error("RuntimeError")
    ELSE Scalar(SumSeq([i \in 1..Len(input.rows) |->
                    (input.rows[i] - target.rows[i]) * (input.rows[i] - target.rows[i])])
                \div Len(input.rows))

\* parameters of torchmetrics.functional.accuracy
AccuracySignature ==
    {"preds", "target", "task", "threshold", "num_classes", "num_labels",
     "average", "multidim_average", "top_k", "ignore_index", "validate_args"}

\* accuracy(preds, target, **keywords): Python rejects a keyword the callee
\* does not declare, and a call that leaves the required `task` out
accuracy(preds, target, keywords) ==
    IF ~(keywords \subseteq AccuracySignature) \/ "task" \notin keywords
    THEN Error("TypeError")
    ELSE IF ~IsTensor(preds) THEN preds
    ELSE Scalar((Cardinality({i \in 1..Len(preds.rows) :
                    (-preds.rows[i]) % (MaxLabel + 1) = target[i]}) * 100)
                \div Len(preds.rows))

\* structural_similarity_index_measure(preds, target): images only,
\* BxCxHxW or BxCxDxHxW
structural_similarity_index_measure(preds, target) ==
    IF ~IsTensor(preds) THEN preds
    ELSE IF preds.shape # target.shape THEN Error("RuntimeError")
    ELSE IF Len(preds.shape) \notin {4, 5} THEN Error("ValueError")
    ELSE Scalar(IF preds.rows = target.rows THEN 1 ELSE 0)

(***************************************************************************)
(* PodModule                                                               *)
(***************************************************************************)
\* what one invocation of a step method leaves behind: the value returned,
\* the metrics recorded through self.log, the exception raised (if any) and
\* the intermediate tensors z and x_hat
Outcome(ret, logged, raised, z, x_hat) ==
    [ret |-> ret, logged |-> logged, raised |-> raised, z |-> z, x_hat |-> x_hat]

\* PodModule.forward
forward(self, x, m1, m2) ==
    LET xf    == view(x)
        z     == Encoder(self, m1, xf)
        x_hat == Decoder(self, m2, z)
        y_hat == log_softmax(x_hat)
    IN  Outcome(Tuple(<<x_hat, y_hat>>), <<>>, "", z, x_hat)

\* PodModule._common_flow
_common_flow(self, batch, stage, m1, m2) ==
    LET x     == view(batch[1])
        y     == batch[2]
        z     == Encoder(self, m1, x)
        x_hat == Decoder(self, m2, z)
        y_hat == log_softmax(x_hat)
        loss  == mse_loss(x_hat, x)
        acc   == accuracy(y_hat, y, {"preds", "target", "accuracy_task"})
        ssim  == structural_similarity_index_measure(x_hat, x)
        evalLogged ==
            IF stage \in {"val", "test"}
            THEN << <<stage \o "_ssim ", ssim>>, <<stage \o "_acc", acc>>,
                    <<stage \o "_loss", loss>> >>
            ELSE <<>>
    IN  IF ~IsTensor(loss) THEN Outcome(None, <<>>, loss.class, z, x_hat)
        ELSE IF stage \in {"val", "test"} /\ ~IsTensor(acc)
             THEN Outcome(None, <<>>, acc.class, z, x_hat)
        ELSE IF stage \in {"val", "test"} /\ ~IsTensor(ssim)
             THEN Outcome(None, <<>>, ssim.class, z, x_hat)
        ELSE IF stage = "training"
             THEN Outcome(loss, evalLogged \o << <<stage \o "_loss", loss>> >>,
                          "", z, x_hat)
             ELSE Outcome(None, evalLogged, "", z, x_hat)

\* a method whose body is a bare call statement returns None
Discard(out) == [out EXCEPT !.ret = None]

\* PodModule.training_step
training_step(self, batch, m1, m2) ==
    Discard(_common_flow(self, batch, "training", m1, m2))

\* PodModule.test_step
test_step(self, batch) == Discard(_common_flow(self, batch, "test", {}, {}))

\* PodModule.validation_step
validation_step(self, batch) == Discard(_common_flow(self, batch, "val", {}, {}))

\* a prediction step that hands the labels back in place of y_hat
predict_step_labels(self, batch, batch_idx, dataloader_idx) ==
    LET out == forward(self, batch[1], {}, {})
    IN  [out EXCEPT !.ret = Tuple(<<out.x_hat,
                                   Tensor(<<Len(batch[2])>>, batch[2])>>)]

\* PodModule.predict_step
predict_step(self, batch, batch_idx, dataloader_idx) ==
    LET x == batch[1]
        y == batch[2]
    IN  forward(self, x, {}, {})

(***************************************************************************)
(* The training-loop runner calling into the wrapper                       *)
(***************************************************************************)
DropoutSet == {0, 50, 100}

\* initial weights of the four Linear layers
ParamSet ==
    { [w1 |-> 1, b1 |-> 0, w2 |-> 1, b2 |-> 1, w3 |-> 2, b3 |-> 0, w4 |-> 1, b4 |-> 0],
      [w1 |-> -1, b1 |-> 1, w2 |-> 2, b2 |-> 0, w3 |-> 1, b3 |-> -1, w4 |-> -1, b4 |-> 1] }

\* PodModule.__init__
PodModule(dropout, accuracy_task, params) ==
    [kind |-> "PodModule", dropout |-> dropout, accuracy_task |-> accuracy_task,
     params |-> params, training |-> TRUE]

Models == {PodModule(d, "multilabel", p) : d \in DropoutSet, p \in ParamSet}

\* well-formed batches (x, y): x of shape (N, 1, 28, 28), y of N labels
Batches ==
    UNION {{ <<Tensor(<<n, 1, ImgSide, ImgSide>>, r), y>> :
                r \in [1..n -> 0..MaxPixel], y \in [1..n -> 0..MaxLabel] } :
           n \in 1..MaxBatch}

BatchSize(batch) == batch[1].shape[1]

\* batches the data provider's loaders yield: every sample of the dataset
\* comes with its own label
DatasetBatches ==
    {b \in Batches : \A i \in 1..Len(b[2]) : b[2][i] = b[1].rows[i] % (MaxLabel + 1)}

NoCall == [stage |-> "none"]

\* dropout masks tried for a batch of n samples: nothing zeroed, the first
\* sample zeroed, every sample zeroed
MaskSet(n) == {{}, {1}, 1..n}

\* the runner puts the module in train mode for the training stage and in
\* eval mode for every other stage, then calls the stage's step method
Invoke(stage, batch, batch_idx, dataloader_idx, m1, m2) ==
    LET self == [model EXCEPT !.training = (stage = "training")]
        out  == CASE stage = "training" -> training_step(self, batch, m1, m2)
                  [] stage = "val"      -> validation_step(self, batch)
                  [] stage = "test"     -> test_step(self, batch)
                  [] stage = "predict"  ->
                        predict_step(self, batch, batch_idx, dataloader_idx)
    IN  [stage |-> stage, batch |-> batch, batch_idx |-> batch_idx,
         dataloader_idx |-> dataloader_idx, self |-> self,
         ret |-> out.ret, logged |-> out.logged, raised |-> out.raised,
         z |-> out.z, x_hat |-> out.x_hat]

Names(logged) == {logged[i][1] : i \in 1..Len(logged)}

driverVars == <<pc, status, failure, steps, fast_dev_run, seedCalls, monitor,
                model, files, predictions, predInputs, fitLogged, fitSteps>>

InitModule ==
    /\ pc = 0
    /\ status = "module"
    /\ failure = [at |-> "", kind |-> ""]
    /\ steps = <<>>
    /\ fast_dev_run = FALSE
    /\ seedCalls = 0
    /\ monitor = ""
    /\ model \in Models
    /\ files = {}
    /\ predictions = None
    /\ predInputs = <<>>
    /\ call = NoCall
    /\ fitLogged = {}
    /\ fitSteps = 0

RunTrainingStep ==
    /\ status = "module"
    /\ call = NoCall
    /\ \E batch \in Batches :
         \E m1, m2 \in MaskSet(BatchSize(batch)) :
            call' = Invoke("training", batch, 0, 0, m1, m2)
    /\ UNCHANGED driverVars

RunValidationStep ==
    /\ status = "module"
    /\ call = NoCall
    /\ \E batch \in Batches, i \in 0..1 :
         call' = Invoke("val", batch, i, 0, {}, {})
    /\ UNCHANGED driverVars

RunTestStep ==
    /\ status = "module"
    /\ call = NoCall
    /\ \E batch \in Batches, i \in 0..1 :
         call' = Invoke("test", batch, i, 0, {}, {})
    /\ UNCHANGED driverVars

RunPredictStep ==
    /\ status = "module"
    /\ call = NoCall
    /\ \E batch \in Batches, i \in 0..1, d \in 0..1 :
         call' = Invoke("predict", batch, i, d, {}, {})
    /\ UNCHANGED driverVars

\* the step method's frame is gone and the runner goes on to the next batch
RunReturn ==
    /\ status = "module"
    /\ call # NoCall
    /\ call' = NoCall
    /\ UNCHANGED driverVars

NextModule ==
    \/ RunTrainingStep
    \/ RunValidationStep
    \/ RunTestStep
    \/ RunPredictStep
    \/ RunReturn

ModuleSpec == InitModule /\ [][NextModule]_vars

(***************************************************************************)
(* The driver: main() of examples/hydra/trainer.py                         *)
(***************************************************************************)
\* main() with the seeding moved behind the data provider
ProgramSeedLate ==
    << [line |-> 43, op |-> "TensorBoardLogger"],
       [line |-> 45, op |-> "PyTorchProfiler"],
       [line |-> 47, op |-> "ModelCheckpoint"],
       [line |-> 49, op |-> "EarlyStopping"],
       [line |-> 57, op |-> "LitDataModule"],
       [line |-> 55, op |-> "seed_everything"],
       [line |-> 59, op |-> "LitModel"],
       [line |-> 61, op |-> "Trainer"],
       [line |-> 63, op |-> "fit"],
       [line |-> 65, op |-> "if"],
       [line |-> 67, op |-> "test"],
       [line |-> 70, op |-> "input_sample"],
       [line |-> 71, op |-> "to_onnx"],
       [line |-> 73, op |-> "predict"],
       [line |-> 75, op |-> "vstack"],
       [line |-> 76, op |-> "TensorDataset"],
       [line |-> 77, op |-> "save_predictions"],
       [line |-> 82, op |-> "save_train"],
       [line |-> 83, op |-> "save_test"],
       [line |-> 84, op |-> "save_val"] >>

\* the statements of main() that call a collaborator, with their lines
Program ==
    << [line |-> 43, op |-> "TensorBoardLogger"],
       [line |-> 45, op |-> "PyTorchProfiler"],
       [line |-> 47, op |-> "ModelCheckpoint"],
       [line |-> 49, op |-> "EarlyStopping"],
       [line |-> 55, op |-> "seed_everything"],
       [line |-> 57, op |-> "LitDataModule"],
       [line |-> 59, op |-> "LitModel"],
       [line |-> 61, op |-> "Trainer"],
       [line |-> 63, op |-> "fit"],
       [line |-> 65, op |-> "if"],
       [line |-> 67, op |-> "test"],
       [line |-> 70, op |-> "input_sample"],
       [line |-> 71, op |-> "to_onnx"],
       [line |-> 73, op |-> "predict"],
       [line |-> 75, op |-> "vstack"],
       [line |-> 76, op |-> "TensorDataset"],
       [line |-> 77, op |-> "save_predictions"],
       [line |-> 82, op |-> "save_train"],
       [line |-> 83, op |-> "save_test"],
       [line |-> 84, op |-> "save_val"] >>

\* statements the trainer runs as a loop over batches
LoopOps == {"fit", "test", "predict"}

\* statements that are one call to a collaborator
SimpleOps == {Program[i].op : i \in 1..Len(Program)} \ (LoopOps \cup {"if", "vstack"})

\* the file a statement writes
Writes(op) ==
    CASE op = "to_onnx"          -> {"model.onnx"}
      [] op = "save_predictions" -> {"predictions.pt"}
      [] op = "save_train"       -> {"train.pt"}
      [] op = "save_test"        -> {"test.pt"}
      [] op = "save_val"         -> {"val.pt"}
      [] OTHER                   -> {}

Op == Program[pc].op

Running == status = "running" /\ pc \in 1..Len(Program)

Init ==
    /\ pc = 1
    /\ status = "running"
    /\ failure = [at |-> "", kind |-> ""]
    /\ steps = <<>>
    /\ fast_dev_run \in BOOLEAN
    /\ seedCalls = 0
    /\ monitor = ""
    /\ model = None
    /\ files = {}
    /\ predictions = None
    /\ predInputs = <<>>
    /\ call = NoCall
    /\ fitLogged = {}
    /\ fitSteps = 0

\* the statement `op` completed: control moves to the next statement, and
\* main() returns after the last one
Finish(op) ==
    /\ pc' = pc + 1
    /\ status' = IF pc + 1 > Len(Program) THEN "done" ELSE "running"
    /\ steps' = Append(steps, op)
    /\ failure' = failure

\* an exception that is caught and dropped: the run goes on
RaiseSwallowed(op, kind) ==
    /\ pc' = pc + 1
    /\ status' = IF pc + 1 > Len(Program) THEN "done" ELSE "running"
    /\ steps' = Append(steps, op)
    /\ failure' = [at |-> op, kind |-> kind]

\* an exception raised in the statement `op`: main() has no handler, so the
\* exception leaves main() and the run ends
Raise(op, kind) ==
    /\ pc' = pc
    /\ status' = "failed"
    /\ steps' = Append(steps, op)
    /\ failure' = [at |-> op, kind |-> kind]

\* a statement that is one call to a collaborator returns
StatementOk ==
    /\ Running
    /\ Op \in SimpleOps
    /\ Finish(Op)
    /\ seedCalls' = IF Op = "seed_everything" THEN seedCalls + 1 ELSE seedCalls
    /\ monitor' = IF Op = "EarlyStopping" THEN "loss" ELSE monitor
    /\ IF Op = "LitModel"
         THEN \E p \in ParamSet : model' = PodModule(50, "multilabel", p)
         ELSE model' = model
    /\ files' = files \cup Writes(Op)
    /\ predictions' = IF Op = "TensorDataset"
                        THEN [kind |-> "TensorDataset", tensors |-> <<predictions>>]
                        ELSE predictions
    /\ UNCHANGED <<fast_dev_run, predInputs, call, fitLogged, fitSteps>>

\* a call to a collaborator raises (bad configuration, I/O error, ...)
StatementRaises ==
    /\ Running
    /\ Op \in SimpleOps \cup LoopOps
    /\ call = NoCall
    /\ Raise(Op, "collaborator")
    /\ UNCHANGED <<fast_dev_run, seedCalls, monitor, model, files, predictions,
                   predInputs, call, fitLogged, fitSteps>>

\* if not cfg.trainer.fast_dev_run
Branch ==
    /\ Running
    /\ Op = "if"
    /\ pc' = IF fast_dev_run THEN Len(Program) + 1 ELSE pc + 1
    /\ status' = IF fast_dev_run THEN "done" ELSE "running"
    /\ steps' = Append(steps, Op)
    /\ UNCHANGED <<failure, fast_dev_run, seedCalls, monitor, model, files,
                   predictions, predInputs, call, fitLogged, fitSteps>>

\* trainer.fit runs training_step on a training batch
FitTrainingStep ==
    /\ Running
    /\ Op = "fit"
    /\ call = NoCall
    /\ fitSteps < MaxFitSteps
    /\ \E batch \in DatasetBatches :
         \E m1, m2 \in MaskSet(BatchSize(batch)) :
            call' = Invoke("training", batch, fitSteps, 0, m1, m2)
    /\ fitLogged' = fitLogged \cup Names(call'.logged)
    /\ fitSteps' = fitSteps + 1
    /\ UNCHANGED <<pc, status, failure, steps, fast_dev_run, seedCalls, monitor,
                   model, files, predictions, predInputs>>

\* trainer.fit runs validation_step on a validation batch
FitValidationStep ==
    /\ Running
    /\ Op = "fit"
    /\ call = NoCall
    /\ \E batch \in DatasetBatches : call' = Invoke("val", batch, 0, 0, {}, {})
    /\ fitLogged' = fitLogged \cup Names(call'.logged)
    /\ UNCHANGED <<pc, status, failure, steps, fast_dev_run, seedCalls, monitor,
                   model, files, predictions, predInputs, fitSteps>>

\* trainer.test runs test_step on a test batch
TestStep ==
    /\ Running
    /\ Op = "test"
    /\ call = NoCall
    /\ \E batch \in DatasetBatches : call' = Invoke("test", batch, 0, 0, {}, {})
    /\ UNCHANGED driverVars

PredItems == IF predictions.kind = "list" THEN predictions.items ELSE <<>>

\* trainer.predict runs predict_step on the next batch of the validation
\* dataloader and keeps what it returns
PredictStep ==
    /\ Running
    /\ Op = "predict"
    /\ call = NoCall
    /\ Len(predInputs) < MaxValBatches
    /\ \E batch \in DatasetBatches :
         /\ call' = Invoke("predict", batch, Len(predInputs), 0, {}, {})
         /\ predInputs' = Append(predInputs, batch[1])
    /\ predictions' = IF call'.raised = "" THEN List(Append(PredItems, call'.ret))
                                           ELSE predictions
    /\ UNCHANGED <<pc, status, failure, steps, fast_dev_run, seedCalls, monitor,
                   model, files, fitLogged, fitSteps>>

\* the step method returned: the trainer's loop goes on
StepReturns ==
    /\ Running
    /\ Op \in LoopOps
    /\ call # NoCall
    /\ call.raised = ""
    /\ call' = NoCall
    /\ UNCHANGED driverVars

\* the step method raised: the exception leaves the trainer and main()
StepRaises ==
    /\ Running
    /\ Op \in LoopOps
    /\ call # NoCall
    /\ call.raised # ""
    /\ Raise(Op, call.raised)
    /\ UNCHANGED <<fast_dev_run, seedCalls, monitor, model, files, predictions,
                   predInputs, call, fitLogged, fitSteps>>

\* trainer.fit / trainer.test / trainer.predict returns
LoopReturns ==
    /\ Running
    /\ Op \in LoopOps
    /\ call = NoCall
    /\ Finish(Op)
    /\ predictions' = IF Op = "predict" THEN List(PredItems) ELSE predictions
    /\ UNCHANGED <<fast_dev_run, seedCalls, monitor, model, files, predInputs,
                   call, fitLogged, fitSteps>>

RECURSIVE ConcatRows(_)
ConcatRows(ts) == IF ts = <<>> THEN <<>> ELSE Head(ts).rows \o ConcatRows(Tail(ts))

\* torch.vstack(tensors): a non-empty sequence of tensors that agree on
\* every dimension but the first, concatenated along the first
vstack(tensors) ==
    IF tensors.kind \notin {"list", "tuple"} THEN Error("TypeError")
    ELSE IF tensors.items = <<>> THEN Error("RuntimeError")
    ELSE IF \E i \in 1..Len(tensors.items) : ~IsTensor(tensors.items[i])
         THEN Error("TypeError")
    ELSE IF \E i \in 1..Len(tensors.items) :
               \/ tensors.items[i].shape = <<>>
               \/ Tail(tensors.items[i].shape) # Tail(tensors.items[1].shape)
         THEN Error("RuntimeError")
    ELSE Tensor(<<SumSeq([i \in 1..Len(tensors.items) |-> tensors.items[i].shape[1]])>>
                    \o Tail(tensors.items[1].shape),
                ConcatRows(tensors.items))

\* predictions = torch.vstack(predictions)
Vstack ==
    /\ Running
    /\ Op = "vstack"
    /\ LET r == vstack(predictions)
       IN  IF IsTensor(r)
           THEN Finish(Op) /\ predictions' = r
           ELSE Raise(Op, r.class) /\ predictions' = predictions
    /\ UNCHANGED <<fast_dev_run, seedCalls, monitor, model, files, predInputs,
                   call, fitLogged, fitSteps>>

Next ==
    \/ StatementOk
    \/ StatementRaises
    \/ Branch
    \/ FitTrainingStep
    \/ FitValidationStep
    \/ TestStep
    \/ PredictStep
    \/ StepReturns
    \/ StepRaises
    \/ LoopReturns
    \/ Vstack

Spec == Init /\ [][Next]_vars

(***************************************************************************)
(* Properties                                                              *)
(***************************************************************************)
Ops == {Program[i].op : i \in 1..Len(Program)}

\* position of a statement in the history of finished statements (0: absent)
Pos(op) == IF \E i \in 1..Len(steps) : steps[i] = op
           THEN CHOOSE i \in 1..Len(steps) : steps[i] = op
           ELSE 0

\* the statement returned (it finished and is not the one that raised)
Completed(op) == Pos(op) > 0 /\ failure.at # op

Ended == status \in {"done", "failed"}

Artifacts == {"model.onnx", "predictions.pt", "train.pt", "test.pt", "val.pt"}

AfterFit == <<"if", "test", "input_sample", "to_onnx", "predict", "vstack",
              "TensorDataset", "save_predictions", "save_train", "save_test",
              "save_val">>

\* C1: a training-stage invocation records the mean-squared-error between
\* the reconstruction and the flattened input and returns that loss to its
\* caller
TrainingStepReturnsLoss ==
    call.stage = "training" =>
        /\ call.raised = ""
        /\ call.logged = << <<"training_loss", mse_loss(call.x_hat, view(call.batch[1]))>> >>
        /\ call.ret = mse_loss(call.x_hat, view(call.batch[1]))

\* C2: a validation or test invocation records exactly the three metrics of
\* its stage (structural similarity, accuracy, loss) and returns nothing; a
\* training invocation records the loss and nothing else
StageMetricsRecorded ==
    /\ call.stage \in {"val", "test"} =>
        /\ call.raised = ""
        /\ Len(call.logged) = 3
        /\ Names(call.logged) =
              {call.stage \o "_ssim ", call.stage \o "_acc", call.stage \o "_loss"}
        /\ call.ret = None
    /\ call.stage = "training" =>
        /\ Len(call.logged) = 1
        /\ Names(call.logged) = {"training_loss"}

\* no collaborator raised and no step method raised inside the trainer
NoStepFailed == failure.kind # "collaborator" /\ failure.at \notin LoopOps

ArtifactsIffNotFastDevRun ==
    /\ fast_dev_run =>
        /\ files = {}
        /\ {"test", "to_onnx", "predict"} \cap {steps[i] : i \in 1..Len(steps)} = {}
    /\ (Ended /\ NoStepFailed) =>
        (Artifacts \subseteq files <=> ~fast_dev_run)

\* C5 (as stated): the seed is fixed before any other component of the run
\* is constructed
SeedBeforeEveryComponent ==
    \A op \in {"TensorBoardLogger", "PyTorchProfiler", "ModelCheckpoint",
               "EarlyStopping", "LitDataModule", "LitModel", "Trainer"} :
        Pos(op) > 0 => (seedCalls = 1 /\ Pos("seed_everything") < Pos(op))

\* C5 (amended): the seed is fixed at most once, and exactly once before the
\* data provider, the model wrapper and the training-loop runner are
\* constructed; the logger, the profiler, the checkpoint and the
\* early-stopping collaborators are constructed before the seeding call
SeedBeforeStochasticComponents ==
    /\ seedCalls <= 1
    /\ \A op \in {"LitDataModule", "LitModel", "Trainer", "fit"} :
          Pos(op) > 0 => (seedCalls = 1 /\ Pos("seed_everything") < Pos(op))
    /\ Pos("seed_everything") > 0 =>
          \A op \in {"TensorBoardLogger", "PyTorchProfiler", "ModelCheckpoint",
                     "EarlyStopping"} :
              Completed(op) /\ Pos(op) < Pos("seed_everything")
    /\ status = "done" => seedCalls = 1

SeededThenConstructed == Completed("Trainer") /\ seedCalls = 1

\* C6: a statement that raises ends the run in failure at that statement:
\* nothing is executed after it, no statement is executed twice, the run
\* never reaches its successful end, and a failure of the export or of the
\* stacking leaves the predictions and the data splits unwritten
FailureIsFinal ==
    /\ failure.at # "" =>
          /\ status = "failed"
          /\ Program[pc].op = failure.at
          /\ steps[Len(steps)] = failure.at
    /\ status = "failed" => failure.at # ""
    /\ \A i, j \in 1..Len(steps) : steps[i] = steps[j] => i = j
    /\ \A i \in 1..Len(steps) : steps[i] = Program[i].op
    /\ (status = "failed" /\ failure.at \in {"to_onnx", "vstack"}) =>
          files \cap {"predictions.pt", "train.pt", "test.pt", "val.pt"} = {}

FailureTerminatesRun ==
    [] FailureIsFinal /\ [][status = "failed" => UNCHANGED vars]_vars

StackingFailed ==
    /\ status = "failed"
    /\ failure.at = "vstack"
    /\ files = {"model.onnx"}

\* C7: the metric the early-stopping collaborator monitors is one the
\* wrapper records during fit
MonitorIsRecorded == fitLogged # {} => monitor \in fitLogged

\* C8: the per-batch results of the prediction stage stack into one tensor
\* with one row per validation sample
PredictionsStack ==
    (Running /\ Op = "vstack") =>
        /\ IsTensor(vstack(predictions))
        /\ vstack(predictions).shape[1] =
              SumSeq([i \in 1..Len(predInputs) |-> predInputs[i].shape[1]])

\* C9: a prediction invocation returns the forward output of its input,
\* whatever the labels, the batch index and the dataloader index, and
\* records no metric
PredictStepIgnoresLabel ==
    call.stage = "predict" =>
        /\ call.raised = ""
        /\ call.logged = <<>>
        /\ call.ret = forward(call.self, call.batch[1], {}, {}).ret
        /\ \A y \in [1..BatchSize(call.batch) -> 0..MaxLabel], i \in 0..1, d \in 0..1 :
              predict_step(call.self, <<call.batch[1], y>>, i, d).ret = call.ret

PredictedWithLabels ==
    /\ call.stage = "predict"
    /\ call.batch[2][1] = 1
    /\ call.batch_idx = 1
    /\ call.dataloader_idx = 1

\* C10: an input batch of N samples flattens to (N, 784), the Encoder maps
\* it to (N, 3) and the Decoder maps that to (N, 784), for every dropout
\* probability
ShapesPreserved ==
    call.stage # "none" =>
        /\ view(call.batch[1]).shape = <<BatchSize(call.batch), 784>>
        /\ IsTensor(call.z)
        /\ call.z.shape = <<BatchSize(call.batch), 3>>
        /\ Len(call.z.rows) = BatchSize(call.batch)
        /\ IsTensor(call.x_hat)
        /\ call.x_hat.shape = <<BatchSize(call.batch), 784>>
        /\ Len(call.x_hat.rows) = BatchSize(call.batch)

EncodedWithDropout ==
    /\ call.stage = "training"
    /\ call.self.dropout = 50
    /\ BatchSize(call.batch) = MaxBatch
    /\ call.z.shape = <<MaxBatch, 3>>

====
